---- MODULE Spec2Model ----
(***************************************************************************)
(* Model of mods/NPEA00385/gb_sp_as_helper/gold_bolt.c: the gold-bolt      *)
(* update hook _start, the counter n_gold_bolts_collected, the flags       *)
(* table collected_bolt, and the host's original update handler            *)
(* gold_bolt_update_func that the hook delegates to.                       *)
(***************************************************************************)
EXTENDS Integers, Sequences, FiniteSets, TLC

\* ------------------------------------------------------------- bounds
\* Bytes of host memory followed on each side of the counter and the table.
Slack == 1
\* Entries of the collected_bolt table that the model covers (0..TableSize-1).
TableSize == 6
\* Moby states range over 0..MaxState (0 and 2 are the ones the hook tests).
MaxState == 3
\* The counter is followed up to this value; an invocation that would pass
\* it is not taken.
MaxCount == 2

\* ------------------------------------------------------------- memory
\* The gold-bolt mobys of the level and the pVars block of each.
Mobys == {"moby_a", "moby_b"}

PVars == {"pvars_a", "pvars_b"}

PVarsOf == [m \in Mobys |-> IF m = "moby_a" THEN "pvars_a" ELSE "pvars_b"]

States == 0..MaxState

BoltNumbers == 0..(TableSize - 1)

\* struct Moby, the fields the hook touches.
Moby == [state : States, pvars : PVars]

\* struct GoldBoltVars.
GoldBoltVars == [number : BoltNumbers]

NoCall == [self |-> "none"]

VARIABLES
    n_gold_bolts_collected, \* *(int*)0x00aff000
    collected_bolt,         \* (char*)0x00aff004, indexed by bolt number
    moby,                   \* the Moby records, by address
    gbvars,                 \* the GoldBoltVars records, by address
    invoked,                \* the last invocation of _start: self and what it read on entry
    handlerCalls,           \* calls of gold_bolt_update_func made by the last invocation
    last02,                 \* per bolt number: the state (0 or 2) of its latest 0/2 invocation
    incs,                   \* per bolt number: increments since its latest state-0 invocation
    hits,                   \* per moby: invocations that found state 2 and the flag clear
    scenario,               \* steps of the run 2,2,0,2 on bolt 5 matched so far, -1 once left
    pc,                     \* threaded updates: where the update of each moby stands
    tload,                  \* threaded updates: the counter value each update has loaded
    cas,                    \* threaded updates: lines 69-72 run as one atomic step
    fault,                  \* raw memory: the process died on an access of the hook
    bigEndian               \* raw memory: the byte order of the counter

vars == <<n_gold_bolts_collected, collected_bolt, moby, gbvars,
          invoked, handlerCalls, last02, incs, hits, scenario, pc, tload, cas,
          fault, bigEndian>>

rawvars == <<fault, bigEndian>>

observers == <<invoked, handlerCalls, last02, hits, scenario>>

\* The memory the hook works on, as one value.
Mem == [n |-> n_gold_bolts_collected, flags |-> collected_bolt,
        moby |-> moby, gbvars |-> gbvars]

\* vars->number for self (line 64, then the reads of lines 67, 69, 71).
NumberOf(mem, self) == mem.gbvars[mem.moby[self].pvars].number

\* ------------------------------------------------- faulty variants
\* Variants of the hook's logic, each with one slip; the properties below are
\* checked to tell the hook from each of them.

\* The flag test of line 69 dropped: every arrival at state 2 counts.
HookLogic_NoTest(mem, self) ==
    LET number == NumberOf(mem, self)
    IN  IF mem.moby[self].state = 0
        THEN [mem EXCEPT !.flags[number] = 0]
        ELSE IF mem.moby[self].state = 2
        THEN [mem EXCEPT !.n = @ + 1, !.flags[number] = 1]
        ELSE mem

\* The store of line 71 dropped: the bolt is counted but never marked.
HookLogic_NoStore(mem, self) ==
    LET number == NumberOf(mem, self)
    IN  IF mem.moby[self].state = 0
        THEN [mem EXCEPT !.flags[number] = 0]
        ELSE IF mem.moby[self].state = 2
        THEN IF mem.flags[number] = 0
             THEN [mem EXCEPT !.n = @ + 1]
             ELSE mem
        ELSE mem

\* The reset branch of lines 66-67 dropped.
HookLogic_NoClear(mem, self) ==
    LET number == NumberOf(mem, self)
    IN  IF mem.moby[self].state = 2
        THEN IF mem.flags[number] = 0
             THEN [mem EXCEPT !.n = @ + 1, !.flags[number] = 1]
             ELSE mem
        ELSE mem

\* Line 68 as a plain else: every nonzero state counts as collected.
HookLogic_ElseCounts(mem, self) ==
    LET number == NumberOf(mem, self)
    IN  IF mem.moby[self].state = 0
        THEN [mem EXCEPT !.flags[number] = 0]
        ELSE IF mem.flags[number] = 0
        THEN [mem EXCEPT !.n = @ + 1, !.flags[number] = 1]
        ELSE mem

\* The reset branch also takes the bolt back out of the counter.
HookLogic_ResetUncounts(mem, self) ==
    LET number == NumberOf(mem, self)
    IN  IF mem.moby[self].state = 0
        THEN [mem EXCEPT !.flags[number] = 0,
                         !.n = IF mem.flags[number] = 0 THEN @ ELSE @ - 1]
        ELSE IF mem.moby[self].state = 2
        THEN IF mem.flags[number] = 0
             THEN [mem EXCEPT !.n = @ + 1, !.flags[number] = 1]
             ELSE mem
        ELSE mem

\* Line 71 storing the moby's state (2) instead of 1.
HookLogic_StoresState(mem, self) ==
    LET number == NumberOf(mem, self)
    IN  IF mem.moby[self].state = 0
        THEN [mem EXCEPT !.flags[number] = 0]
        ELSE IF mem.moby[self].state = 2
        THEN IF mem.flags[number] = 0
             THEN [mem EXCEPT !.n = @ + 1, !.flags[number] = mem.moby[self].state]
             ELSE mem
        ELSE mem

\* Line 66 as an assignment, if (self->state = 0): the state is overwritten
\* and neither branch is taken.
HookLogic_AssignsState(mem, self) ==
    [mem EXCEPT !.moby[self].state = 0]

\* Line 70 as a plain store of 1 instead of += 1.
HookLogic_OverwritesCounter(mem, self) ==
    LET number == NumberOf(mem, self)
    IN  IF mem.moby[self].state = 0
        THEN [mem EXCEPT !.flags[number] = 0]
        ELSE IF mem.moby[self].state = 2
        THEN IF mem.flags[number] = 0
             THEN [mem EXCEPT !.n = 1, !.flags[number] = 1]
             ELSE mem
        ELSE mem

\* Line 70 dropped: the bolt is marked but never counted.
HookLogic_NoIncrement(mem, self) ==
    LET number == NumberOf(mem, self)
    IN  IF mem.moby[self].state = 0
        THEN [mem EXCEPT !.flags[number] = 0]
        ELSE IF mem.moby[self].state = 2
        THEN IF mem.flags[number] = 0
             THEN [mem EXCEPT !.flags[number] = 1]
             ELSE mem
        ELSE mem

\* Line 69 testing for the value 1 instead of against 0: any other value
\* counts as not collected.
HookLogic_TestsForOne(mem, self) ==
    LET number == NumberOf(mem, self)
    IN  IF mem.moby[self].state = 0
        THEN [mem EXCEPT !.flags[number] = 0]
        ELSE IF mem.moby[self].state = 2
        THEN IF mem.flags[number] # 1
             THEN [mem EXCEPT !.n = @ + 1, !.flags[number] = 1]
             ELSE mem
        ELSE mem

\* ------------------------------------------------------------ the hook
\* Lines 66-73: the hook's own logic, up to the delegation.
HookLogic(mem, self) ==
    LET number == NumberOf(mem, self)
    IN  IF mem.moby[self].state = 0
        THEN [mem EXCEPT !.flags[number] = 0]
        ELSE IF mem.moby[self].state = 2
        THEN IF mem.flags[number] = 0
             THEN [mem EXCEPT !.n = @ + 1, !.flags[number] = 1]
             ELSE mem
        ELSE mem

\* What the host's handler is passed and finds in memory when it is called.
Observed(mem, self) == [self |-> self, mem |-> mem]

\* The body with the delegation of line 75 moved ahead of the logic: the
\* handler is called on the memory as it was on entry.
StartBody_CallsFirst(mem, self) ==
    [mem |-> HookLogic(mem, self), calls |-> <<Observed(mem, self)>>]

\* Lines 63-76: the body of _start as the memory at the point of delegation
\* and the calls of gold_bolt_update_func it makes.
StartBody(mem, self) ==
    LET after == HookLogic(mem, self)
    IN  [mem |-> after, calls |-> <<Observed(after, self)>>]

\* The host's original handler (line 61, called at line 75): it drives the
\* moby's state machine and leaves the counter and the table alone.
gold_bolt_update_func(mem, self, next) == [mem EXCEPT !.moby[self].state = next]

\* The handler run once for each call the body made, in order.
RECURSIVE RunCalls(_, _, _)
RunCalls(mem, calls, next) ==
    IF calls = <<>>
    THEN mem
    ELSE RunCalls(gold_bolt_update_func(mem, Head(calls).self, next), Tail(calls), next)

\* The scenario monitor: one instance with number 5 seeing 2, 2, 0, 2.
ScenarioStates == <<2, 2, 0, 2>>

ScenarioStep(self, state, number) ==
    IF /\ scenario >= 0
       /\ scenario < Len(ScenarioStates)
       /\ number = 5
       /\ state = ScenarioStates[scenario + 1]
       /\ (scenario = 0 \/ invoked.self = self)
    THEN scenario + 1
    ELSE -1

\* The mobys of the level, and the state before any invocation.
InitLevel ==
    /\ moby \in [Mobys -> Moby]
    /\ \A m \in Mobys : moby[m].pvars = PVarsOf[m]
    /\ gbvars \in [PVars -> GoldBoltVars]
    \* the two mobys are interchangeable: keep one of each mirrored pair of levels
    /\ gbvars["pvars_a"].number <= gbvars["pvars_b"].number
    /\ invoked = NoCall
    /\ handlerCalls = <<>>
    /\ last02 = [i \in BoltNumbers |-> -1]
    /\ incs = [i \in BoltNumbers |-> 0]
    /\ hits = [m \in Mobys |-> 0]
    /\ scenario = 0
    /\ pc = [m \in Mobys |-> "idle"]
    /\ tload = [m \in Mobys |-> 0]
    /\ fault = FALSE

\* A fresh session: counter 0, nothing collected.
InitMem ==
    /\ n_gold_bolts_collected = 0
    /\ collected_bolt = [i \in BoltNumbers |-> 0]
    /\ InitLevel
    /\ bigEndian = TRUE

\* The host as it is: one update loop, one invocation at a time.
Init == InitMem /\ cas = FALSE

\* One invocation of _start by the host's update loop, run to completion,
\* the handler's call included.
_start(self) ==
    \E body \in {StartBody(Mem, self)} :
    \E next \in States :
    \E out \in {RunCalls(body.mem, body.calls, next)} :
        LET entry == Mem
            state == entry.moby[self].state
            number == NumberOf(entry, self)
        IN  /\ out.n <= MaxCount
            /\ n_gold_bolts_collected' = out.n
            /\ collected_bolt' = out.flags
            /\ moby' = out.moby
            /\ gbvars' = out.gbvars
            /\ invoked' = [self |-> self, state |-> state,
                           pvars |-> entry.moby[self].pvars, number |-> number]
            /\ handlerCalls' = body.calls
            /\ last02' = IF state \in {0, 2}
                         THEN [last02 EXCEPT ![number] = state]
                         ELSE last02
            /\ incs' = IF state = 0
                       THEN [incs EXCEPT ![number] = 0]
                       ELSE [incs EXCEPT ![number] = @ + (body.mem.n - entry.n)]
            /\ hits' = IF state = 2 /\ entry.flags[number] = 0
                       THEN [hits EXCEPT ![self] = @ + 1]
                       ELSE hits
            /\ scenario' = ScenarioStep(self, state, number)
            /\ UNCHANGED <<pc, tload, cas, rawvars>>

Next == \E self \in Mobys : _start(self)

Spec == Init /\ [][Next]_vars

\* ------------------------------------------- a table the host has written
\* The table is the host's: it may hold marks the host wrote itself. The
\* values a char entry may hold besides 0, by two representatives.
HostBytes == {1, 255}

\* A session in which the host has already marked moby_a's bolt; moby_b's
\* is the last entry of the table.
InitHost ==
    /\ n_gold_bolts_collected = 0
    /\ InitLevel
    /\ gbvars["pvars_b"].number = TableSize - 1
    /\ \E b \in HostBytes :
           collected_bolt = [i \in BoltNumbers |->
                                IF i = gbvars["pvars_a"].number THEN b ELSE 0]
    /\ cas = FALSE
    /\ bigEndian = TRUE

SpecHost == InitHost /\ [][Next]_vars

\* ------------------------------------------------- threaded updates
\* A host that updates its mobys on several threads, one moby per thread at
\* a time: the steps of _start for different mobys interleave. With cas the
\* test, increment and store of lines 69-72 are one step; without it they are
\* the separate loads and stores the compiler emits.

\* The faulty variant of SplitPath: the build meant to be atomic still runs
\* lines 69-72 as separate steps.
SplitPath_Always(self) == moby[self].state = 2

\* Whether this invocation runs lines 69-72 as separate steps.
SplitPath(self) == ~cas /\ moby[self].state = 2

InitMT == InitMem /\ cas \in BOOLEAN

\* Lines 66-73 in one step: the reset store, the pass-through, or the atomic
\* test-increment-set.
MTLogic(self) ==
    /\ pc[self] = "idle"
    /\ ~SplitPath(self)
    /\ LET entry == Mem
           number == NumberOf(entry, self)
           after == HookLogic(entry, self)
       IN  /\ after.n <= MaxCount
           /\ n_gold_bolts_collected' = after.n
           /\ collected_bolt' = after.flags
           /\ incs' = IF entry.moby[self].state = 0
                      THEN [incs EXCEPT ![number] = 0]
                      ELSE [incs EXCEPT ![number] = @ + (after.n - entry.n)]
    /\ pc' = [pc EXCEPT ![self] = "call"]
    /\ UNCHANGED <<moby, gbvars, tload, cas, observers, rawvars>>

\* Line 69: the test of the flag.
MTTest(self) ==
    /\ pc[self] = "idle"
    /\ SplitPath(self)
    /\ pc' = [pc EXCEPT ![self] =
                 IF collected_bolt[NumberOf(Mem, self)] = 0 THEN "load" ELSE "call"]
    /\ UNCHANGED <<n_gold_bolts_collected, collected_bolt, moby, gbvars,
                   incs, tload, cas, observers, rawvars>>

\* Line 70, first half: the load of the counter.
MTLoad(self) ==
    /\ pc[self] = "load"
    /\ tload' = [tload EXCEPT ![self] = n_gold_bolts_collected]
    /\ pc' = [pc EXCEPT ![self] = "store"]
    /\ UNCHANGED <<n_gold_bolts_collected, collected_bolt, moby, gbvars,
                   incs, cas, observers, rawvars>>

\* Line 70, second half: the store of the loaded value plus one.
MTStore(self) ==
    /\ pc[self] = "store"
    /\ tload[self] + 1 <= MaxCount
    /\ n_gold_bolts_collected' = tload[self] + 1
    /\ incs' = [incs EXCEPT ![NumberOf(Mem, self)] = @ + 1]
    /\ tload' = [tload EXCEPT ![self] = 0]
    /\ pc' = [pc EXCEPT ![self] = "flag"]
    /\ UNCHANGED <<collected_bolt, moby, gbvars, cas, observers, rawvars>>

\* Line 71: the store of the flag.
MTSetFlag(self) ==
    /\ pc[self] = "flag"
    /\ collected_bolt' = [collected_bolt EXCEPT ![NumberOf(Mem, self)] = 1]
    /\ pc' = [pc EXCEPT ![self] = "call"]
    /\ UNCHANGED <<n_gold_bolts_collected, moby, gbvars, incs, tload, cas, observers, rawvars>>

\* Line 75: the delegation, which ends the invocation.
MTCall(self) ==
    /\ pc[self] = "call"
    /\ \E next \in States :
           moby' = gold_bolt_update_func(Mem, self, next).moby
    /\ pc' = [pc EXCEPT ![self] = "idle"]
    /\ UNCHANGED <<n_gold_bolts_collected, collected_bolt, gbvars,
                   incs, tload, cas, observers, rawvars>>

NextMT ==
    \E self \in Mobys :
        \/ MTLogic(self)
        \/ MTTest(self)
        \/ MTLoad(self)
        \/ MTStore(self)
        \/ MTSetFlag(self)
        \/ MTCall(self)

SpecMT == InitMT /\ [][NextMT]_vars

\* ------------------------------------------------------- raw memory
\* The hook as the build runs it on the host's memory: collected_bolt is a
\* char pointer, collected_bolt[number] is the byte at that offset from
\* 0x00aff004 whatever number is, and n_gold_bolts_collected is the int in
\* the four bytes just below. Here collected_bolt maps byte offsets from the
\* table's base, the counter's bytes and Slack bytes on each side included.

\* sizeof(int): the counter lies at 0x00aff000, the table starts at 0x00aff004.
CounterBytes == 4

CounterOffsets == (0 - CounterBytes)..(0 - 1)

RawOffsets == (0 - CounterBytes - Slack)..(TableSize - 1 + Slack)

\* Offsets the source itself shows to be the host's data: the counter and
\* the entries of the table. An access anywhere else is undefined behaviour:
\* it hits whatever the host keeps there, or faults.
KnownOffsets == (0 - CounterBytes)..(TableSize - 1)

\* The place, counted from the least significant byte, of the counter byte at
\* offset o.
PlaceOf(o, be) == IF be THEN (0 - 1) - o ELSE o + CounterBytes

\* The value of n_gold_bolts_collected: the int at offset -4, summed byte by
\* byte from offset o on.
RECURSIVE Load32From(_, _, _)
Load32From(ram, be, o) ==
    IF o > 0 - 1
    THEN 0
    ELSE ram[o] * (256 ^ PlaceOf(o, be)) + Load32From(ram, be, o + 1)

Load32(ram, be) == Load32From(ram, be, 0 - CounterBytes)

\* Line 70 on the counter's bytes: add one to the int at offset -4, the
\* carry running from the least significant byte up, within 32 bits.
Inc32(ram, be) ==
    [o \in DOMAIN ram |->
        IF o \in CounterOffsets
        THEN IF \A lo \in CounterOffsets :
                    PlaceOf(lo, be) < PlaceOf(o, be) => ram[lo] = 255
             THEN (ram[o] + 1) % 256
             ELSE ram[o]
        ELSE ram[o]]

\* The byte stores of lines 67 and 71.
Store8(ram, o, b) == [ram EXCEPT ![o] = b]

\* The faulty variant of RawLogic: number clamped into the table before use.
RawLogic_Clamped(ram, be, state, number) ==
    LET i == IF number < 0 THEN 0
             ELSE IF number > TableSize - 1 THEN TableSize - 1 ELSE number
    IN  IF state = 0
        THEN Store8(ram, i, 0)
        ELSE IF state = 2
        THEN IF ram[i] = 0
             THEN Store8(Inc32(ram, be), i, 1)
             ELSE ram
        ELSE ram

\* Lines 66-73 on bytes: the same statements, in the order they run.
RawLogic(ram, be, state, number) ==
    IF state = 0
    THEN Store8(ram, number, 0)
    ELSE IF state = 2
    THEN IF ram[number] = 0
         THEN Store8(Inc32(ram, be), number, 1)
         ELSE ram
    ELSE ram

\* Whether lines 66-73 touch collected_bolt[number] at all in this state.
Accesses(state) == state \in {0, 2}

\* A fresh session, moby_b on the table's first entry and moby_a's number
\* anywhere in the followed memory; outside the counter the host may have
\* left any value in the byte moby_a's number points at.
InitRaw ==
    /\ n_gold_bolts_collected = 0
    /\ moby \in [Mobys -> Moby]
    /\ \A m \in Mobys : moby[m].pvars = PVarsOf[m]
    /\ gbvars \in [PVars -> [number : RawOffsets]]
    /\ gbvars["pvars_b"].number = 0
    /\ \E b \in {0} \cup HostBytes :
           collected_bolt = [o \in RawOffsets |->
                                IF o = gbvars["pvars_a"].number /\ o \notin CounterOffsets
                                   /\ o # 0
                                THEN b ELSE 0]
    /\ invoked = NoCall
    /\ handlerCalls = <<>>
    /\ last02 = [i \in BoltNumbers |-> -1]
    /\ incs = [i \in BoltNumbers |-> 0]
    /\ hits = [m \in Mobys |-> 0]
    /\ scenario = 0
    /\ pc = [m \in Mobys |-> "idle"]
    /\ tload = [m \in Mobys |-> 0]
    /\ cas = FALSE
    /\ fault = FALSE
    \* the byte order shows only when moby_a's number falls on the counter
    /\ bigEndian \in IF gbvars["pvars_a"].number \in CounterOffsets
                     THEN BOOLEAN ELSE {TRUE}

\* One invocation of _start whose accesses all go through.
RawStart(self) ==
    /\ ~fault
    /\ \E ram \in {RawLogic(collected_bolt, bigEndian, moby[self].state,
                             NumberOf(Mem, self))} :
       \E after \in {[n |-> Load32(ram, bigEndian), flags |-> ram,
                       moby |-> moby, gbvars |-> gbvars]} :
       \E next \in States :
        LET calls == <<Observed(after, self)>>
            out == RunCalls(after, calls, next)
        IN  /\ after.n % 256 <= MaxCount
            /\ n_gold_bolts_collected' = after.n
            /\ collected_bolt' = after.flags
            /\ moby' = out.moby
            /\ gbvars' = after.gbvars
            /\ invoked' = [self |-> self, state |-> moby[self].state,
                           pvars |-> moby[self].pvars, number |-> NumberOf(Mem, self)]
            /\ handlerCalls' = calls
    /\ UNCHANGED <<last02, incs, hits, scenario, pc, tload, cas, rawvars>>

\* One invocation of _start that dies on its access to collected_bolt[number]
\* (line 67 or 69), number being outside the counter and the table: nothing
\* is written, the handler is not called, the process is gone.
RawFault(self) ==
    /\ ~fault
    /\ Accesses(moby[self].state)
    /\ NumberOf(Mem, self) \notin KnownOffsets
    /\ fault' = TRUE
    /\ invoked' = [self |-> self, state |-> moby[self].state,
                   pvars |-> moby[self].pvars, number |-> NumberOf(Mem, self)]
    /\ handlerCalls' = <<>>
    /\ UNCHANGED <<n_gold_bolts_collected, collected_bolt, moby, gbvars,
                   last02, incs, hits, scenario, pc, tload, cas, bigEndian>>

NextRaw ==
    \E self \in Mobys :
        \/ RawStart(self)
        \/ RawFault(self)

SpecRaw == InitRaw /\ [][NextRaw]_vars

\* ---------------------------------------------------------- properties
Sum2(f) == f["moby_a"] + f["moby_b"]

Called == invoked # NoCall

\* C1. Idempotence: while no state-0 invocation for bolt number i intervenes,
\* the counter has been incremented on behalf of i exactly once if a state-2
\* invocation for i has happened (and not at all otherwise), however many
\* state-2 invocations there were.
C1_Idempotence ==
    \A i \in BoltNumbers : incs[i] = IF last02[i] = 2 THEN 1 ELSE 0

\* Two state-2 invocations in a row for bolt 5, counted once.
C1_Witness ==
    /\ scenario = 2
    /\ last02[5] = 2
    /\ incs[5] = 1
    /\ n_gold_bolts_collected = 1

\* C2. From an all-zero table, collected_bolt[i] is 1 exactly when the latest
\* invocation for i that had state 0 or 2 had state 2.
C2_FlagTracksLatest ==
    \A i \in BoltNumbers : (collected_bolt[i] = 1) <=> (last02[i] = 2)

\* One bolt collected and still marked, another collected and then reset.
C2_Witness ==
    \E i, j \in BoltNumbers :
        /\ i # j
        /\ collected_bolt[i] = 1 /\ last02[i] = 2
        /\ collected_bolt[j] = 0 /\ last02[j] = 0
        /\ n_gold_bolts_collected = 2

\* C3. Every invocation calls the host's handler exactly once, with the moby
\* it was given, and the handler finds the counter and the table as the hook's
\* own logic left them.
C3_DelegatesOnce ==
    Called =>
        /\ Len(handlerCalls) = 1
        /\ handlerCalls[1].self = invoked.self
        /\ handlerCalls[1].mem.n = n_gold_bolts_collected
        /\ handlerCalls[1].mem.flags = collected_bolt

\* The handler called in the counting branch, finding the counter at 2 and
\* the flag set.
C3_Witness ==
    /\ Called
    /\ invoked.state = 2
    /\ Len(handlerCalls) = 1
    /\ handlerCalls[1].mem.n = 2
    /\ handlerCalls[1].mem.flags[invoked.number] = 1
    /\ incs[invoked.number] = 1

\* C4. Reset correctness: the first state-2 invocation for i after a state-0
\* invocation for i finds the flag clear, adds exactly one to the counter and
\* sets the flag to 1.
C4_ResetThenRecount ==
    [][\A i \in BoltNumbers :
          (last02[i] = 0 /\ last02'[i] = 2) =>
              /\ collected_bolt[i] = 0
              /\ n_gold_bolts_collected' = n_gold_bolts_collected + 1
              /\ collected_bolt'[i] = 1]_vars

\* A bolt counted, reset and counted again: the counter is 2 and every count
\* was for the one bolt number that ever saw state 0 or 2.
C4_Witness ==
    \E i \in BoltNumbers :
        /\ last02[i] = 2
        /\ collected_bolt[i] = 1
        /\ n_gold_bolts_collected = 2
        /\ \A j \in BoltNumbers \ {i} : last02[j] = -1

\* C5. Pass-through: an invocation that finds a state other than 0 and 2
\* leaves the counter and the whole table as they were, and still calls the
\* handler.
C5_PassThrough ==
    [][(invoked' # NoCall /\ invoked'.state \notin {0, 2}) =>
          /\ n_gold_bolts_collected' = n_gold_bolts_collected
          /\ collected_bolt' = collected_bolt
          /\ Len(handlerCalls') = 1
          /\ handlerCalls'[1].self = invoked'.self
          /\ handlerCalls'[1].mem.n = n_gold_bolts_collected
          /\ handlerCalls'[1].mem.flags = collected_bolt]_vars

\* A pass-through invocation on a bolt whose flag is clear, with another bolt
\* already counted.
C5_Witness ==
    /\ Called
    /\ invoked.state \notin {0, 2}
    /\ collected_bolt[invoked.number] = 0
    /\ n_gold_bolts_collected = 1
    /\ Len(handlerCalls) = 1

\* C6. Scenario: from counter 0 and an all-zero table, one instance with
\* number 5 invoked with states 2, 2, 0, 2 gives (1, flag 1), (1, flag 1),
\* (1, flag 0), (2, flag 1).
C6_Scenario ==
    /\ scenario = 1 => n_gold_bolts_collected = 1 /\ collected_bolt[5] = 1
    /\ scenario = 2 => n_gold_bolts_collected = 1 /\ collected_bolt[5] = 1
    /\ scenario = 3 => n_gold_bolts_collected = 1 /\ collected_bolt[5] = 0
    /\ scenario = 4 => n_gold_bolts_collected = 2 /\ collected_bolt[5] = 1

\* The end of the scenario.
C6_Witness ==
    /\ scenario = 4
    /\ invoked.number = 5
    /\ invoked.state = 2

\* C7. Flag discipline: a step changes collected_bolt[i] only from 0 to 1 in
\* a state-2 invocation for i, or to 0 in a state-0 invocation for i; no flag
\* is cleared but by a state-0 invocation, and only 0 and 1 are written.
C7_FlagDiscipline ==
    [][\A i \in BoltNumbers :
          /\ collected_bolt'[i] \in {0, 1}
          /\ collected_bolt'[i] # collected_bolt[i] =>
                /\ invoked'.number = i
                /\ \/ /\ collected_bolt[i] = 0
                      /\ collected_bolt'[i] = 1
                      /\ invoked'.state = 2
                   \/ /\ collected_bolt'[i] = 0
                      /\ invoked'.state = 0]_vars

\* A flag that went 0 -> 1 -> 0: cleared by a state-0 invocation after a count.
C7_Witness ==
    /\ Called
    /\ invoked.state = 0
    /\ collected_bolt[invoked.number] = 0
    /\ n_gold_bolts_collected = 1
    /\ \A j \in BoltNumbers \ {invoked.number} : last02[j] = -1

\* C8. The hook's own logic does not write the moby: at the point of
\* delegation the state, the pvars pointer and the number behind it are what
\* they were on entry, and so are all other mobys and their pvars.
C8_MobyUntouched ==
    Called =>
        /\ Len(handlerCalls) >= 1
        /\ LET seen == handlerCalls[1].mem
           IN  /\ seen.moby[invoked.self].state = invoked.state
               /\ seen.moby[invoked.self].pvars = invoked.pvars
               /\ seen.gbvars[invoked.pvars].number = invoked.number
               /\ seen.moby = [moby EXCEPT ![invoked.self].state = invoked.state]
               /\ seen.gbvars = gbvars

\* The counting branch has run (flag set, counter raised) and the handler
\* still finds the moby in state 2.
C8_Witness ==
    /\ Called
    /\ invoked.state = 2
    /\ incs[invoked.number] = 1
    /\ handlerCalls[1].mem.moby[invoked.self].state = 2
    /\ handlerCalls[1].mem.flags[invoked.number] = 1
    /\ moby[invoked.self].state = 0

\* C9. One counter shared by all instances, invocations run one at a time:
\* the counter's increase since the start is the sum over the instances of
\* the times each was seen in state 2 with its flag clear.
C9_SharedCounter ==
    n_gold_bolts_collected = Sum2(hits)

\* Two instances with distinct numbers, each counted once.
C9_Witness ==
    /\ gbvars["pvars_a"].number # gbvars["pvars_b"].number
    /\ hits["moby_a"] = 1
    /\ hits["moby_b"] = 1
    /\ n_gold_bolts_collected = 2

\* C10. Threaded updates need atomicity: with lines 69-72 run as one atomic
\* step, no bolt number is ever counted twice without a state-0 invocation
\* for it in between, whatever the interleaving; run as separate steps, two
\* state-2 invocations for one number can both pass the test and both
\* increment (C10_Witness).
C10_AtomicKeepsIdempotence ==
    cas => \A i \in BoltNumbers : incs[i] <= 1

\* Without atomicity: two mobys with the same number, both counted, no reset
\* in between, and the counter at 2.
C10_Witness ==
    /\ ~cas
    /\ \E i \in BoltNumbers :
           /\ incs[i] = 2
           /\ gbvars["pvars_a"].number = i
           /\ gbvars["pvars_b"].number = i
    /\ n_gold_bolts_collected = 2

\* C11. Reset-branch frame: a state-0 invocation for bolt number i (an entry
\* of the table) sets collected_bolt[i] to 0, keeps the counter, and keeps
\* every other entry of the table.
C11_ResetFrame ==
    [][(invoked' # NoCall /\ invoked'.state = 0) =>
          /\ collected_bolt'[invoked'.number] = 0
          /\ n_gold_bolts_collected' = n_gold_bolts_collected
          /\ \A j \in BoltNumbers \ {invoked'.number} :
                 collected_bolt'[j] = collected_bolt[j]
          /\ handlerCalls'[1].mem.n = n_gold_bolts_collected]_vars

\* Both bolts counted, then moby_a reset: its flag is back to 0, the other
\* flag is still 1 and the counter is still 2.
C11_Witness ==
    /\ Called
    /\ invoked.self = "moby_a"
    /\ invoked.state = 0
    /\ hits["moby_a"] = 1
    /\ hits["moby_b"] = 1
    /\ gbvars["pvars_a"].number # gbvars["pvars_b"].number
    /\ collected_bolt[gbvars["pvars_a"].number] = 0
    /\ collected_bolt[gbvars["pvars_b"].number] = 1
    /\ n_gold_bolts_collected = 2

\* C14. Counter and flag move together: no invocation lowers the counter,
\* none raises it by more than 1, and an invocation raises it exactly when
\* it takes collected_bolt[number] from 0 to 1.
C14_CounterFollowsFlag ==
    [][invoked' # NoCall =>
          /\ n_gold_bolts_collected' >= n_gold_bolts_collected
          /\ n_gold_bolts_collected' <= n_gold_bolts_collected + 1
          /\ (n_gold_bolts_collected' = n_gold_bolts_collected + 1) <=>
                 /\ collected_bolt[invoked'.number] = 0
                 /\ collected_bolt'[invoked'.number] = 1]_vars

\* One moby counted twice (with a reset in between): the counter went up
\* twice, each time with the flag going 0 -> 1.
C14_Witness ==
    /\ Called
    /\ invoked.state = 2
    /\ hits[invoked.self] = 2
    /\ n_gold_bolts_collected = 2
    /\ collected_bolt[invoked.number] = 1

\* C15. From counter 0 and an all-zero table, the number of entries whose
\* flag is 1 never exceeds the counter.
C15_FlagsAtMostCounter ==
    Cardinality({i \in BoltNumbers : collected_bolt[i] = 1}) <= n_gold_bolts_collected

\* Fewer flags than counts: two counts, one bolt reset since, one still marked.
C15_Witness ==
    /\ Cardinality({i \in BoltNumbers : collected_bolt[i] = 1}) = 1
    /\ n_gold_bolts_collected = 2
    /\ \E j \in BoltNumbers : last02[j] = 0 /\ collected_bolt[j] = 0

\* C13. Any nonzero flag counts as collected: a state-2 invocation that finds
\* collected_bolt[i] nonzero, be it 1 or another value the host left, keeps
\* the counter and the table; one that finds exactly 0 adds one and stores 1.
C13_NonzeroIsCollected ==
    [][(invoked' # NoCall /\ invoked'.state = 2) =>
          IF collected_bolt[invoked'.number] # 0
          THEN /\ n_gold_bolts_collected' = n_gold_bolts_collected
               /\ collected_bolt' = collected_bolt
          ELSE /\ n_gold_bolts_collected' = n_gold_bolts_collected + 1
               /\ collected_bolt'[invoked'.number] = 1]_vars

\* A state-2 invocation on a bolt the host had marked with 255: the mark is
\* kept, and the only count is the other bolt's.
C13_Witness ==
    /\ Called
    /\ invoked.self = "moby_a"
    /\ invoked.state = 2
    /\ collected_bolt[invoked.number] = 255
    /\ hits["moby_a"] = 0
    /\ n_gold_bolts_collected = 1

\* What C12 says of the access: lines 66-73 test and write the byte at
\* offset i from the table's base, i as it is, and besides that byte and the
\* counter they write nothing.
AccessAt(i, state) ==
    IF state = 0
    THEN /\ collected_bolt'[i] = 0
         /\ \A o \in RawOffsets \ {i} : collected_bolt'[o] = collected_bolt[o]
    ELSE IF state = 2 /\ collected_bolt[i] = 0
    THEN /\ collected_bolt'[i] = 1
         /\ \A o \in RawOffsets \ ({i} \cup CounterOffsets) :
                collected_bolt'[o] = collected_bolt[o]
         /\ i \notin CounterOffsets =>
                n_gold_bolts_collected' = n_gold_bolts_collected + 1
    ELSE collected_bolt' = collected_bolt

====
